---------------------------- MODULE Spec2Model ----------------------------
(***************************************************************************)
(* A model of the imposition pipeline of the Imposer backend: the layout   *)
(* planner, the grid builder, the bleed resolver, the position solver, the *)
(* duplex mirror, the mark placer, the sheet assembler and the three       *)
(* sheet-building loops of the PDF output stage, and the session store of  *)
(* the HTTP layer.                                                         *)
(*                                                                         *)
(* Lengths are integers (model millimetres).  The position solver halves   *)
(* (sheet - grid_extent), so every stored coordinate (trim_origin_x,       *)
(* trim_origin_y and the four fields of clip_rect) is kept multiplied by   *)
(* Scale: the arithmetic of the source is then exact on integers.          *)
(***************************************************************************)
EXTENDS Integers, Sequences, FiniteSets, TLC

VARIABLES
    config,        \* ImpositionConfig of the job
    page_count,    \* analysis.page_count of the uploaded source
    pc,            \* position of the job: idle, previewed, build, done, error
    error,         \* kind of the error raised, "" when none
    layout,        \* ImpositionLayout computed by the planner
    eff_trim_w,    \* effective trim width (after cell rotation)
    eff_trim_h,    \* effective trim height (after cell rotation)
    front_grid,    \* grid of the side built last (front, or the preview grid)
    back_grid,     \* back grid of the sheet built last, << >> when none
    sheet_num,     \* sheet_num of the building loop
    page_idx,      \* page_idx / page_cursor of the building loop
    sheets_data,   \* result of get_saddle_stitch_sheets
    pages_out,     \* number of pages appended to output_pdf
    new_pages,     \* the pages assembled for the sheet built last
    marks,         \* the marks placed for each side built last (or previewed)
    output_sides,  \* the sides appended to output_pdf so far, in order
    unclosed,      \* the document handles opened and not closed so far
    sessions,      \* _sessions: the session ids, in insertion order
    uuid_counter,  \* number of session ids handed out by uuid4
    reading,       \* number of uploads waiting in "await file.read()"
    recency,       \* the stored session ids, least recently used first
    response       \* the last response of the HTTP layer

vars == << config, page_count, pc, error, layout, eff_trim_w, eff_trim_h,
           front_grid, back_grid, sheet_num, page_idx, sheets_data, pages_out,
           new_pages, marks, output_sides, unclosed,
           sessions, uuid_counter, reading, recency, response >>

\* the variables of the session store of main.py
store_vars == << sessions, uuid_counter, reading, recency, response >>

-----------------------------------------------------------------------------
(* Bounds of the model *)

MaxSheet == 9
MaxTrim == 4
MaxBleed == 1
MaxGap == 1
MaxMargin == 1
MaxGrip == 1
MaxPages == 5
MaxUploads == 12
MaxReading == 2
MaxReadId == 2
SrcTrimX == 1
SrcTrimY == 2

(* Program constants *)

None == -1
Scale == 2

Edges == {"top", "bottom", "left", "right"}
Modes == {"step_and_repeat", "booklet_saddle_stitch",
          "booklet_perfect_bind", "cut_and_stack"}

-----------------------------------------------------------------------------
(* Arithmetic helpers *)

Max(a, b) == IF a >= b THEN a ELSE b
Min(a, b) == IF a <= b THEN a ELSE b

\* Python int(a / b) for b > 0: truncation toward zero
IntDiv(a, b) == IF a >= 0 THEN a \div b ELSE -((-a) \div b)

\* Python math.ceil(a / b) for a >= 0, b > 0
CeilDiv(a, b) == (a + b - 1) \div b

-----------------------------------------------------------------------------
(* models.py *)

EdgeBleed == [top |-> 0, bottom |-> 0, left |-> 0, right |-> 0]
EdgeFlags == [top |-> FALSE, bottom |-> FALSE, left |-> FALSE, right |-> FALSE]
Rectangle(x, y, width, height) ==
    [x |-> x, y |-> y, width |-> width, height |-> height]

GridCell(row, col, page_index, rotation) ==
    [row |-> row, col |-> col, page_index |-> page_index,
     rotation |-> rotation,
     clip_rect |-> Rectangle(0, 0, 0, 0),
     bleed_per_edge |-> EdgeBleed,
     is_interior_edge |-> EdgeFlags,
     trim_origin_x |-> 0, trim_origin_y |-> 0]

\* utils.py
right_edge(r) == r.x + r.width
top_edge(r) == r.y + r.height

rects_overlap(a, b) ==
    IF right_edge(a) <= b.x \/ right_edge(b) <= a.x THEN FALSE
    ELSE IF top_edge(a) <= b.y \/ top_edge(b) <= a.y THEN FALSE
    ELSE TRUE

-----------------------------------------------------------------------------
(* Orientation swap, repeated in the planner, the position solver and the   *)
(* output stage                                                            *)

SheetDims(sheet) ==
    IF sheet.orientation = "landscape" /\ sheet.sheet_width < sheet.sheet_height
    THEN << sheet.sheet_height, sheet.sheet_width >>
    ELSE IF sheet.orientation = "portrait" /\ sheet.sheet_width > sheet.sheet_height
    THEN << sheet.sheet_height, sheet.sheet_width >>
    ELSE << sheet.sheet_width, sheet.sheet_height >>

-----------------------------------------------------------------------------
(* imposition_engine.py: Layout Planner *)

\* the "verify fit" loops of the tight branch
RECURSIVE ShrinkToFit(_, _, _, _)
ShrinkToFit(n, outer_extra, trim, available) ==
    IF n > 0 /\ (outer_extra + n * trim) > available
    THEN ShrinkToFit(n - 1, outer_extra, trim, available)
    ELSE n

\* returns << cols, rows >>
_calc_grid_count(sheet_w, sheet_h, mark_margin, grip, trim_w, trim_h, bleed, gap) ==
    LET available_w == sheet_w - 2 * mark_margin
        available_h == sheet_h - 2 * mark_margin - grip
    IN  IF available_w <= 0 \/ available_h <= 0 THEN << 0, 0 >>
        ELSE IF gap = 0 THEN
            LET outer_extra_w == bleed.left + bleed.right
                outer_extra_h == bleed.top + bleed.bottom
                cols0 == IF trim_w > 0
                         THEN Max(1, IntDiv(available_w - outer_extra_w, trim_w))
                         ELSE 0
                cols == ShrinkToFit(cols0, outer_extra_w, trim_w, available_w)
                rows0 == IF trim_h > 0
                         THEN Max(1, IntDiv(available_h - outer_extra_h, trim_h))
                         ELSE 0
                rows == ShrinkToFit(rows0, outer_extra_h, trim_h, available_h)
            IN  << Max(cols, 0), Max(rows, 0) >>
        ELSE
            LET cell_w == trim_w + bleed.left + bleed.right + gap
                cell_h == trim_h + bleed.top + bleed.bottom + gap
                cols == IF cell_w > 0 THEN IntDiv(available_w, cell_w) ELSE 0
                rows == IF cell_h > 0 THEN IntDiv(available_h, cell_h) ELSE 0
            IN  << Max(cols, 0), Max(rows, 0) >>

\* variant: the fill runs column by column
SequentialGrid_column_major(rows, cols, page_count_, rotation, cursor) ==
    [i \in 1..(rows * cols) |->
        GridCell((i - 1) \div cols, (i - 1) % cols,
                 LET n == ((i - 1) % cols) * rows + ((i - 1) \div cols)
                 IN  IF cursor + n < page_count_ THEN cursor + n ELSE None,
                 rotation)]

\* the row-major fill of cut_and_stack and perfect_bind
SequentialGrid(rows, cols, page_count_, rotation, cursor) ==
    [i \in 1..(rows * cols) |->
        GridCell((i - 1) \div cols, (i - 1) % cols,
                 IF cursor + (i - 1) < page_count_ THEN cursor + (i - 1) ELSE None,
                 rotation)]

\* one grid cell per page of a side, col = i mod cols, row = i div cols
SaddleSide(pages, cols, rotation) ==
    [i \in 1..Len(pages) |->
        GridCell((i - 1) \div cols, (i - 1) % cols, pages[i], rotation)]

\* the raw signature table, without the blanking of pages >= page_count
SaddlePairs(page_count_) ==
    LET total == CeilDiv(page_count_, 4) * 4
    IN  [k \in 1..(total \div 4) |->
            LET i == k - 1
            IN  [front |-> << total - (2 * i) - 1, 2 * i >>,
                 back  |-> << 2 * i + 1, total - (2 * i) - 2 >>]]

Blank(p, page_count_) == IF p < page_count_ THEN p ELSE None

\* variant: the blanking test admits the index equal to page_count
get_saddle_stitch_sheets_inclusive(page_count_) ==
    LET raw == SaddlePairs(page_count_)
        keep(p) == IF p <= page_count_ THEN p ELSE None
    IN  [k \in 1..Len(raw) |->
            [front |-> << keep(raw[k].front[1]), keep(raw[k].front[2]) >>,
             back  |-> << keep(raw[k].back[1]), keep(raw[k].back[2]) >>]]

get_saddle_stitch_sheets(page_count_) ==
    LET raw == SaddlePairs(page_count_)
    IN  [k \in 1..Len(raw) |->
            [front |-> << Blank(raw[k].front[1], page_count_),
                          Blank(raw[k].front[2], page_count_) >>,
             back  |-> << Blank(raw[k].back[1], page_count_),
                          Blank(raw[k].back[2], page_count_) >>]]

_build_saddle_stitch_grid(rows, cols, page_count_, rotation, sheet_number) ==
    LET sheets == SaddlePairs(page_count_)
    IN  IF Len(sheets) > 0
        THEN LET idx == Max(0, Min(sheet_number, Len(sheets) - 1))
                 front_pages == sheets[idx + 1].front
             IN  SaddleSide(<< Blank(front_pages[1], page_count_),
                               Blank(front_pages[2], page_count_) >>,
                            cols, rotation)
        ELSE << >>

_build_grid(mode, rows, cols, page_count_, rotation, sheet_number, n_up) ==
    IF mode = "step_and_repeat"
    THEN [i \in 1..(rows * cols) |->
            GridCell((i - 1) \div cols, (i - 1) % cols, 0, rotation)]
    ELSE IF mode = "cut_and_stack"
    THEN SequentialGrid(rows, cols, page_count_, rotation, sheet_number * n_up)
    ELSE IF mode = "booklet_saddle_stitch"
    THEN _build_saddle_stitch_grid(rows, cols, page_count_, rotation, sheet_number)
    ELSE IF mode = "booklet_perfect_bind"
    THEN SequentialGrid(rows, cols, page_count_, rotation, sheet_number * n_up)
    ELSE << >>

calculate_imposition_layout(cfg, page_count_, sheet_number_) ==
    LET dims == SheetDims(cfg.sheet)
        sheet_w == dims[1]
        sheet_h == dims[2]
        normal == _calc_grid_count(sheet_w, sheet_h, cfg.sheet.mark_margin,
                                   cfg.sheet.grip_edge, cfg.trim_width,
                                   cfg.trim_height, cfg.bleed, cfg.gap_between_items)
        rotated == _calc_grid_count(sheet_w, sheet_h, cfg.sheet.mark_margin,
                                    cfg.sheet.grip_edge, cfg.trim_height,
                                    cfg.trim_width, cfg.bleed, cfg.gap_between_items)
        n_up_normal == normal[1] * normal[2]
        n_up_rotated == rotated[1] * rotated[2]
        rotate == cfg.auto_rotate /\ n_up_rotated > n_up_normal
        rotation == IF rotate THEN 90 ELSE 0
        best_cols == Max(1, IF rotate THEN rotated[1] ELSE normal[1])
        best_rows == Max(1, IF rotate THEN rotated[2] ELSE normal[2])
        n_up == best_cols * best_rows
        pages_per_sheet == IF cfg.duplex THEN n_up * 2 ELSE n_up
        total_sheets ==
            IF cfg.mode = "step_and_repeat"
            THEN IF cfg.duplex THEN Max(1, CeilDiv(page_count_, 2))
                 ELSE Max(1, page_count_)
            ELSE Max(1, CeilDiv(page_count_, pages_per_sheet))
        sheet_number == Max(0, Min(sheet_number_, total_sheets - 1))
    IN  [rows |-> best_rows, cols |-> best_cols, n_up |-> n_up,
         total_sheets |-> total_sheets, cell_rotation |-> rotation,
         grid |-> _build_grid(cfg.mode, best_rows, best_cols, page_count_,
                              rotation, sheet_number, n_up)]


-----------------------------------------------------------------------------
(* bleed_manager.py: Bleed Resolver *)

\* variant: the row convention inverted, top = row - 1 and bottom = row + 1
_get_neighbor_rows_down(grid, cell, edge, total_rows, total_cols) ==
    LET target_row == IF edge = "top" THEN cell.row - 1
                      ELSE IF edge = "bottom" THEN cell.row + 1
                      ELSE cell.row
        target_col == IF edge = "left" THEN cell.col - 1
                      ELSE IF edge = "right" THEN cell.col + 1
                      ELSE cell.col
        found == {i \in 1..Len(grid) :
                     grid[i].row = target_row /\ grid[i].col = target_col}
    IN  IF target_row < 0 \/ target_row >= total_rows THEN 0
        ELSE IF target_col < 0 \/ target_col >= total_cols THEN 0
        ELSE IF found = {} THEN 0
        ELSE CHOOSE i \in found : \A j \in found : i <= j

\* index in grid of the neighbouring cell, 0 for Python's None
_get_neighbor(grid, cell, edge, total_rows, total_cols) ==
    LET target_row == IF edge = "top" THEN cell.row + 1
                      ELSE IF edge = "bottom" THEN cell.row - 1
                      ELSE cell.row
        target_col == IF edge = "left" THEN cell.col - 1
                      ELSE IF edge = "right" THEN cell.col + 1
                      ELSE cell.col
        found == {i \in 1..Len(grid) :
                     grid[i].row = target_row /\ grid[i].col = target_col}
    IN  IF target_row < 0 \/ target_row >= total_rows THEN 0
        ELSE IF target_col < 0 \/ target_col >= total_cols THEN 0
        ELSE IF found = {} THEN 0
        ELSE CHOOSE i \in found : \A j \in found : i <= j

_get_bleed_for_edge(bleed_config, edge) ==
    IF edge = "top" THEN bleed_config.top
    ELSE IF edge = "bottom" THEN bleed_config.bottom
    ELSE IF edge = "left" THEN bleed_config.left
    ELSE IF edge = "right" THEN bleed_config.right
    ELSE 0

\* the branch taken for one edge of one cell: TRUE when the edge is interior
EdgeInterior(grid, cell, edge, lay, gap) ==
    LET neighbor == _get_neighbor(grid, cell, edge, lay.rows, lay.cols)
    IN  IF gap > 0 THEN FALSE
        ELSE IF neighbor = 0 THEN FALSE
        ELSE IF grid[neighbor].page_index = None THEN FALSE
        ELSE TRUE

\* variant: every edge takes the configured bleed, interior or not
EdgeBleedValue_always_full(grid, cell, edge, lay, bleed_config, gap) ==
    _get_bleed_for_edge(bleed_config, edge)

EdgeBleedValue(grid, cell, edge, lay, bleed_config, gap) ==
    IF EdgeInterior(grid, cell, edge, lay, gap) THEN 0
    ELSE _get_bleed_for_edge(bleed_config, edge)

calculate_per_cell_bleed(grid, lay, bleed_config, gap) ==
    [i \in 1..Len(grid) |->
        LET cell == grid[i]
        IN  IF cell.page_index = None THEN cell
            ELSE [cell EXCEPT
                    !.bleed_per_edge =
                        [top    |-> EdgeBleedValue(grid, cell, "top", lay, bleed_config, gap),
                         bottom |-> EdgeBleedValue(grid, cell, "bottom", lay, bleed_config, gap),
                         left   |-> EdgeBleedValue(grid, cell, "left", lay, bleed_config, gap),
                         right  |-> EdgeBleedValue(grid, cell, "right", lay, bleed_config, gap)],
                    !.is_interior_edge =
                        [top    |-> EdgeInterior(grid, cell, "top", lay, gap),
                         bottom |-> EdgeInterior(grid, cell, "bottom", lay, gap),
                         left   |-> EdgeInterior(grid, cell, "left", lay, gap),
                         right  |-> EdgeInterior(grid, cell, "right", lay, gap)]]]

-----------------------------------------------------------------------------
(* bleed_manager.py: Position Solver (coordinates multiplied by Scale) *)

\* total grid extent (trim area + outer bleed) along one axis
GridExtent(n, trim, bleed_lo, bleed_hi, gap) ==
    IF gap = 0 THEN n * trim + bleed_lo + bleed_hi
    ELSE n * (trim + bleed_lo + bleed_hi + gap) - gap

\* variant: the gap-mode pitch without the trim term
CellPitch_without_trim(trim, bleed_lo, bleed_hi, gap) ==
    IF gap = 0 THEN trim ELSE bleed_lo + bleed_hi + gap

\* distance between the trim origins of neighbouring cells along one axis
CellPitch(trim, bleed_lo, bleed_hi, gap) ==
    IF gap = 0 THEN trim ELSE trim + bleed_lo + bleed_hi + gap

\* Scale * ((sheet - grid_extent) / 2.0 + bleed_lo)
CentreOffset(sheet, grid_extent, bleed_lo) ==
    (sheet - grid_extent) + Scale * bleed_lo

calculate_cell_positions(grid, lay, sheet_config, bleed_config, gap, trim_w, trim_h) ==
    LET dims == SheetDims(sheet_config)
        sheet_w == dims[1]
        sheet_h == dims[2]
        grid_w == GridExtent(lay.cols, trim_w, bleed_config.left, bleed_config.right, gap)
        grid_h == GridExtent(lay.rows, trim_h, bleed_config.bottom, bleed_config.top, gap)
        offset_x == CentreOffset(sheet_w, grid_w, bleed_config.left)
        offset_y == CentreOffset(sheet_h, grid_h, bleed_config.bottom)
        pitch_x == CellPitch(trim_w, bleed_config.left, bleed_config.right, gap)
        pitch_y == CellPitch(trim_h, bleed_config.bottom, bleed_config.top, gap)
    IN  [i \in 1..Len(grid) |->
            LET cell == grid[i]
                x == offset_x + Scale * (cell.col * pitch_x)
                y == offset_y + Scale * (cell.row * pitch_y)
            IN  [cell EXCEPT
                    !.trim_origin_x = x,
                    !.trim_origin_y = y,
                    !.clip_rect = Rectangle(
                        x - Scale * cell.bleed_per_edge.left,
                        y - Scale * cell.bleed_per_edge.bottom,
                        Scale * (trim_w + cell.bleed_per_edge.left
                                        + cell.bleed_per_edge.right),
                        Scale * (trim_h + cell.bleed_per_edge.top
                                        + cell.bleed_per_edge.bottom))]]

\* resolver followed by solver, as every caller runs them
ResolveAndPosition(grid, lay, cfg, trim_w, trim_h) ==
    calculate_cell_positions(
        calculate_per_cell_bleed(grid, lay, cfg.bleed, cfg.gap_between_items),
        lay, cfg.sheet, cfg.bleed, cfg.gap_between_items, trim_w, trim_h)

-----------------------------------------------------------------------------
(* duplex_handler.py: Duplex Mirror *)

MirrorCols(grid, lay) ==
    [i \in 1..Len(grid) |-> [grid[i] EXCEPT !.col = (lay.cols - 1) - grid[i].col]]

MirrorRows(grid, lay) ==
    [i \in 1..Len(grid) |->
        [grid[i] EXCEPT !.row = (lay.rows - 1) - grid[i].row,
                        !.rotation = (grid[i].rotation + 180) % 360]]

create_duplex_back(grid, lay, cfg, trim_w, trim_h) ==
    LET back == IF cfg.flip_edge = "long" THEN MirrorCols(grid, lay)
                ELSE IF cfg.flip_edge = "short" THEN MirrorRows(grid, lay)
                ELSE grid
    IN  ResolveAndPosition(back, lay, cfg, trim_w, trim_h)

\* the cells of the grid with a smaller (row, col) than the given cell
CellsBefore(grid, cell) ==
    { j \in 1..Len(grid) :
        \/ grid[j].row < cell.row
        \/ (grid[j].row = cell.row /\ grid[j].col < cell.col) }

\* pages assigned over the cells sorted by (row, col); the list order of the
\* grid is kept.  No building loop calls it.
assign_back_pages(back, page_cursor, page_count_) ==
    [i \in 1..Len(back) |->
        LET n == page_cursor + Cardinality(CellsBefore(back, back[i]))
        IN  [back[i] EXCEPT !.page_index = IF n < page_count_ THEN n ELSE None]]

-----------------------------------------------------------------------------
(* The job: its inputs *)

BleedConfig(top, bottom, left, right) ==
    [top |-> top, bottom |-> bottom, left |-> left, right |-> right]

\* no bleed, uniform bleed, and bleed on one edge only
BleedConfigs ==
    { BleedConfig(0, 0, 0, 0),
      BleedConfig(MaxBleed, MaxBleed, MaxBleed, MaxBleed),
      BleedConfig(MaxBleed, 0, 0, 0),
      BleedConfig(0, MaxBleed, 0, 0),
      BleedConfig(0, 0, MaxBleed, 0),
      BleedConfig(0, 0, 0, MaxBleed) }

MarkConfig(crop_marks_enabled) ==
    [crop_marks_enabled |-> crop_marks_enabled,
     crop_mark_length |-> 2,
     crop_mark_offset |-> 1,
     registration_marks_enabled |-> TRUE,
     color_bars_enabled |-> FALSE,
     fold_marks_enabled |-> TRUE,
     slug_info_enabled |-> TRUE,
     slug_text_content |-> << "filename", "date", "sheet_number" >>]

\* sheets of the geometry-rich jobs: both orientations, grip and margin
SheetConfigs ==
    [sheet_width : {MaxSheet - 4, MaxSheet},
     sheet_height : {MaxSheet - 4},
     orientation : {"landscape", "portrait"},
     grip_edge : {0, MaxGrip},
     mark_margin : {0, MaxMargin}]

\* jobs that vary the geometry: a duplex job of one or two pages
GeometryConfigs ==
    [mode : {"step_and_repeat", "cut_and_stack", "booklet_saddle_stitch"},
     trim_width : {2, MaxTrim},
     trim_height : {2, MaxTrim},
     bleed : BleedConfigs,
     sheet : SheetConfigs,
     gap_between_items : {0, MaxGap},
     duplex : {TRUE},
     flip_edge : {"long", "short"},
     auto_rotate : BOOLEAN,
     marks : {MarkConfig(FALSE)}]

\* sheets of the page-rich jobs: landscape, no mark margin
PipelineSheetConfigs ==
    [sheet_width : {MaxSheet - 4, MaxSheet},
     sheet_height : {MaxSheet - 4},
     orientation : {"landscape"},
     grip_edge : {0, MaxGrip},
     mark_margin : {0}]

\* jobs that vary the mode, the duplex setting and the page count
PipelineConfigs ==
    [mode : Modes,
     trim_width : {2, MaxTrim - 1},
     trim_height : {2, MaxTrim - 1},
     bleed : { BleedConfig(0, 0, 0, 0),
               BleedConfig(MaxBleed, MaxBleed, MaxBleed, MaxBleed),
               BleedConfig(0, 0, MaxBleed, 0) },
     sheet : PipelineSheetConfigs,
     gap_between_items : {0, MaxGap},
     duplex : BOOLEAN,
     flip_edge : {"long", "short"},
     auto_rotate : BOOLEAN,
     marks : {MarkConfig(FALSE)}]

NoLayout == [rows |-> 0, cols |-> 0, n_up |-> 0, total_sheets |-> 0,
             cell_rotation |-> 0, grid |-> << >>]

\* the state of a job before any request is served
Idle ==
    /\ pc = "idle"
    /\ error = ""
    /\ layout = NoLayout
    /\ eff_trim_w = 0
    /\ eff_trim_h = 0
    /\ front_grid = << >>
    /\ back_grid = << >>
    /\ sheet_num = 0
    /\ page_idx = 0
    /\ sheets_data = << >>
    /\ pages_out = 0
    /\ new_pages = << >>
    /\ marks = << >>
    /\ output_sides = << >>
    /\ unclosed = {}

\* the session store before any request
EmptyStore ==
    /\ sessions = << >>
    /\ uuid_counter = 0
    /\ reading = 0
    /\ recency = << >>
    /\ response = [request |-> "none", session_id |-> 0, status |-> 0]

Init ==
    /\ config \in PipelineConfigs
    /\ page_count \in 1..MaxPages
    /\ Idle
    /\ EmptyStore

InitGeometry ==
    /\ config \in GeometryConfigs
    /\ page_count \in 1..2
    /\ Idle
    /\ EmptyStore

-----------------------------------------------------------------------------
(* mark_placer.py: Mark Placer (coordinates multiplied by Scale) *)

MarkObject(type, x1, y1, x2, y2, properties) ==
    [type |-> type, x1 |-> x1, y1 |-> y1, x2 |-> x2, y2 |-> y2,
     properties |-> properties]

\* round(v, 2): v is a multiple of 1/Scale mm, the result is in 1/100 mm
_round(v) == (v * 100) \div Scale

\* utils.point_in_rect with the point and the rectangle multiplied by k
point_in_rect(px, py, rect, k) ==
    /\ k * rect.x <= px /\ px <= k * (rect.x + rect.width)
    /\ k * rect.y <= py /\ py <= k * (rect.y + rect.height)

\* exclude_idx is 0-based; the midpoint is compared doubled
line_overlaps_any_rect(x1, y1, x2, y2, rects, exclude_idx) ==
    \E i \in 1..Len(rects) :
        /\ i - 1 # exclude_idx
        /\ \/ point_in_rect(x1 + x2, y1 + y2, rects[i], 2)
           \/ (point_in_rect(x1, y1, rects[i], 1) /\ point_in_rect(x2, y2, rects[i], 1))

\* the trim rectangles of the cells with a page, in list order
all_trim_rects(grid, trim_w, trim_h) ==
    LET populated == SelectSeq(grid, LAMBDA cell : cell.page_index # None)
    IN  [i \in 1..Len(populated) |->
            Rectangle(populated[i].trim_origin_x, populated[i].trim_origin_y,
                      Scale * trim_w, Scale * trim_h)]

\* the candidate marks of one cell, in the order the loops try them;
\* cell_idx is the 0-based position of the cell in the grid
CornerCandidates(cell, cell_idx, mark_config, trim_w, trim_h) ==
    LET length == Scale * mark_config.crop_mark_length
        offset == Scale * mark_config.crop_mark_offset
        tx == cell.trim_origin_x
        ty == cell.trim_origin_y
        rx == tx + Scale * trim_w
        uy == ty + Scale * trim_h
        cand(on, x1, y1, x2, y2) ==
            [on |-> on, x1 |-> x1, y1 |-> y1, x2 |-> x2, y2 |-> y2,
             cell_idx |-> cell_idx]
        L(cy) == cand(~cell.is_interior_edge.left, tx - offset, cy,
                      tx - offset - length, cy)
        R(cy) == cand(~cell.is_interior_edge.right, rx + offset, cy,
                      rx + offset + length, cy)
        B(cx) == cand(~cell.is_interior_edge.bottom, cx, ty - offset,
                      cx, ty - offset - length)
        T(cx) == cand(~cell.is_interior_edge.top, cx, uy + offset,
                      cx, uy + offset + length)
    IN  SelectSeq(<< L(ty), B(tx), R(ty), B(rx), L(uy), T(tx), R(uy), T(rx) >>,
                  LAMBDA c : c.on)

RECURSIVE AllCandidates(_, _, _, _, _)
AllCandidates(grid, i, mark_config, trim_w, trim_h) ==
    IF i > Len(grid) THEN << >>
    ELSE (IF grid[i].page_index = None THEN << >>
          ELSE CornerCandidates(grid[i], i - 1, mark_config, trim_w, trim_h))
         \o AllCandidates(grid, i + 1, mark_config, trim_w, trim_h)

MarkKey(c) == << _round(c.x1), _round(c.y1), _round(c.x2), _round(c.y2) >>

\* the candidates are taken in order: one already seen, or overlapping the
\* trim rectangle of another cell, is dropped.  properties.cell records the
\* cell the mark was generated for.
RECURSIVE KeepCandidates(_, _, _, _, _)
KeepCandidates(cands, i, rects, seen_marks, kept) ==
    IF i > Len(cands) THEN kept
    ELSE LET c == cands[i]
         IN  IF MarkKey(c) \in seen_marks
                \/ line_overlaps_any_rect(c.x1, c.y1, c.x2, c.y2, rects, c.cell_idx)
             THEN KeepCandidates(cands, i + 1, rects, seen_marks, kept)
             ELSE KeepCandidates(
                      cands, i + 1, rects, seen_marks \cup {MarkKey(c)},
                      Append(kept, MarkObject("crop", c.x1, c.y1, c.x2, c.y2,
                                              [cell |-> c.cell_idx])))

place_crop_marks(grid, lay, mark_config, trim_w, trim_h) ==
    KeepCandidates(AllCandidates(grid, 1, mark_config, trim_w, trim_h), 1,
                   all_trim_rects(grid, trim_w, trim_h), {}, << >>)

\* sw / 2 and sh / 2 multiplied by Scale are sw and sh; margin is
\* mark_margin / 2
place_registration_marks(sheet_config) ==
    LET sw == sheet_config.sheet_width
        sh == sheet_config.sheet_height
        margin == sheet_config.mark_margin
    IN  << MarkObject("registration", margin, sh, 0, 0, [radius |-> 4]),
           MarkObject("registration", Scale * sw - margin, sh, 0, 0, [radius |-> 4]),
           MarkObject("registration", sw, margin, 0, 0, [radius |-> 4]),
           MarkObject("registration", sw, Scale * sh - margin, 0, 0, [radius |-> 4]) >>

place_color_bars(sheet_config) ==
    [i \in 1..12 |->
        MarkObject("color_bar", Scale * (sheet_config.mark_margin + (i - 1) * 5),
                   Scale * 2, 0, 0, [patch |-> i])]

place_fold_marks(lay, sheet_config) ==
    IF lay.cols = 2
    THEN LET fold_x == sheet_config.sheet_width
         IN  << MarkObject("fold", fold_x, 0, fold_x, Scale * 5,
                           [direction |-> "vertical"]),
                MarkObject("fold", fold_x, Scale * sheet_config.sheet_height,
                           fold_x, Scale * (sheet_config.sheet_height - 5),
                           [direction |-> "vertical"]) >>
    ELSE << >>

\* one part of the slug text; the file name, the date and the profile are
\* kept as their token
SlugPart(item, sheet_num_, total_sheets_) ==
    IF item = "sheet_number" THEN << "Sheet: ", sheet_num_, " of ", total_sheets_ >>
    ELSE << item >>

place_slug_info(sheet_config, mark_config, sheet_num_, total_sheets_) ==
    << MarkObject("slug_text",
                  Scale * sheet_config.mark_margin,
                  Scale * (sheet_config.sheet_height - 3), 0, 0,
                  [text |-> [i \in 1..Len(mark_config.slug_text_content) |->
                                SlugPart(mark_config.slug_text_content[i],
                                         sheet_num_, total_sheets_)]]) >>

place_all_marks(grid, lay, mark_config, bleed_config, sheet_config, trim_w, trim_h, sheet_num_, total_sheets_) ==
    (IF mark_config.crop_marks_enabled
     THEN place_crop_marks(grid, lay, mark_config, trim_w, trim_h) ELSE << >>)
    \o (IF mark_config.registration_marks_enabled
        THEN place_registration_marks(sheet_config) ELSE << >>)
    \o (IF mark_config.color_bars_enabled
        THEN place_color_bars(sheet_config) ELSE << >>)
    \o (IF mark_config.fold_marks_enabled
        THEN place_fold_marks(lay, sheet_config) ELSE << >>)
    \o (IF mark_config.slug_info_enabled
        THEN place_slug_info(sheet_config, mark_config, sheet_num_, total_sheets_)
        ELSE << >>)

-----------------------------------------------------------------------------
(* main.py: preview_imposition *)

\* the layout is computed once and the grid is resolved in place
Preview ==
    /\ pc = "idle"
    /\ \E lay \in {calculate_imposition_layout(config, page_count, 0)} :
          LET rot == lay.cell_rotation = 90
              tw == IF rot THEN config.trim_height ELSE config.trim_width
              th == IF rot THEN config.trim_width ELSE config.trim_height
          IN  /\ eff_trim_w' = tw
              /\ eff_trim_h' = th
              /\ front_grid' = ResolveAndPosition(lay.grid, lay, config, tw, th)
              /\ layout' = [lay EXCEPT !.grid = front_grid']
              /\ marks' = << place_all_marks(front_grid', lay, config.marks,
                                             config.bleed, config.sheet, tw, th, 1,
                                             lay.total_sheets) >>
    /\ pc' = "previewed"
    /\ UNCHANGED << config, page_count, error, back_grid, sheet_num, page_idx,
                    sheets_data, pages_out, new_pages, output_sides, unclosed >>
    /\ UNCHANGED store_vars

-----------------------------------------------------------------------------
(* pdf_output.py: generate_imposed_pdf, up to the choice of the builder *)

\* variant: the validation compares the trim alone, without the bleed
TrimExceedsSheet_without_bleed(cfg) ==
    LET dims == SheetDims(cfg.sheet)
    IN  \/ cfg.trim_width > dims[1]
        \/ cfg.trim_height > dims[2]

TrimExceedsSheet(cfg) ==
    LET dims == SheetDims(cfg.sheet)
    IN  \/ cfg.trim_width + cfg.bleed.left + cfg.bleed.right > dims[1]
        \/ cfg.trim_height + cfg.bleed.top + cfg.bleed.bottom > dims[2]

StartImpose ==
    /\ pc = "idle"
    /\ \E lay \in {calculate_imposition_layout(config, page_count, 0)} :
       LET rot == lay.cell_rotation = 90
       IN  IF TrimExceedsSheet(config)
           THEN /\ pc' = "error"
                /\ error' = "TrimExceedsSheet"
                /\ unclosed' = unclosed \cup {"analyzer"}
                /\ UNCHANGED << layout, eff_trim_w, eff_trim_h, sheets_data >>
           ELSE IF lay.n_up = 0
           THEN /\ pc' = "error"
                /\ error' = "ZeroNUp"
                /\ layout' = lay
                /\ unclosed' = unclosed \cup {"analyzer"}
                /\ UNCHANGED << eff_trim_w, eff_trim_h, sheets_data >>
           ELSE /\ pc' = "build"
                /\ error' = ""
                /\ unclosed' = unclosed \cup {"analyzer", "source_pdf"}
                /\ layout' = lay
                /\ eff_trim_w' = IF rot THEN config.trim_height ELSE config.trim_width
                /\ eff_trim_h' = IF rot THEN config.trim_width ELSE config.trim_height
                /\ sheets_data' = IF config.mode = "booklet_saddle_stitch"
                                  THEN get_saddle_stitch_sheets(page_count)
                                  ELSE << >>
    /\ UNCHANGED << config, page_count, front_grid, back_grid, sheet_num,
                    page_idx, pages_out, new_pages, marks, output_sides >>
    /\ UNCHANGED store_vars

-----------------------------------------------------------------------------
(* pdf_output.py: _assemble_pikepdf_sheet *)

\* utils.mm_to_pt: v is a length multiplied by Scale; the result is exact,
\* in units of 1/441 pt: (v / Scale) / 0.3528 = v * 625 / 441
mm_to_pt(v) == v * 625

\* the "{:.4f}" formatting of the content stream: n is in 1/441 pt, the
\* result in 1/10000 pt, rounded to the nearest
Fmt4(n) == (2 * n * 10000 + 441) \div (2 * 441)

\* the trim box of a source page, in 1/441 pt: the sources of the model have
\* a trim box of the configured trim size at (SrcTrimX, SrcTrimY) mm
SrcTrim ==
    [x |-> mm_to_pt(Scale * SrcTrimX), y |-> mm_to_pt(Scale * SrcTrimY),
     w |-> mm_to_pt(Scale * config.trim_width),
     h |-> mm_to_pt(Scale * config.trim_height)]

\* variant: the quarter turn without the shift by the width of the cell
CmTranslation_without_pivot_shift(cell, trim_w, trim_h) ==
    LET target_x == mm_to_pt(cell.trim_origin_x)
        target_y == mm_to_pt(cell.trim_origin_y)
    IN  IF cell.rotation = 90
        THEN << target_x + SrcTrim.y, target_y - SrcTrim.x >>
        ELSE IF cell.rotation = 180
        THEN << target_x + SrcTrim.x + SrcTrim.w, target_y + SrcTrim.y + SrcTrim.h >>
        ELSE IF cell.rotation = 270
        THEN << target_x - SrcTrim.y, target_y + SrcTrim.x >>
        ELSE << target_x - SrcTrim.x, target_y - SrcTrim.y >>

\* the translation of the cm operator emitted for one cell
CmTranslation(cell, trim_w, trim_h) ==
    LET target_x == mm_to_pt(cell.trim_origin_x)
        target_y == mm_to_pt(cell.trim_origin_y)
        target_trim_w_pt == mm_to_pt(Scale * trim_w)
        target_trim_h_pt == mm_to_pt(Scale * trim_h)
    IN  IF cell.rotation = 90
        THEN << target_x + SrcTrim.y + target_trim_w_pt, target_y - SrcTrim.x >>
        ELSE IF cell.rotation = 180
        THEN << target_x + SrcTrim.x + SrcTrim.w, target_y + SrcTrim.y + SrcTrim.h >>
        ELSE IF cell.rotation = 270
        THEN << target_x - SrcTrim.y, target_y + SrcTrim.x + target_trim_h_pt >>
        ELSE << target_x - SrcTrim.x, target_y - SrcTrim.y >>

\* the six numbers of the cm operator: the rotation and the translation
CmMatrix(cell, trim_w, trim_h) ==
    LET t == CmTranslation(cell, trim_w, trim_h)
    IN  IF cell.rotation = 90 THEN << 0, 1, -1, 0, t[1], t[2] >>
        ELSE IF cell.rotation = 180 THEN << -1, 0, 0, -1, t[1], t[2] >>
        ELSE IF cell.rotation = 270 THEN << 0, -1, 1, 0, t[1], t[2] >>
        ELSE << 1, 0, 0, 1, t[1], t[2] >>

\* one placement of the content stream, as the f-string writes it
Placement(cell, name, trim_w, trim_h) ==
    LET m == CmMatrix(cell, trim_w, trim_h)
    IN  [name |-> name,
         page_index |-> cell.page_index,
         row |-> cell.row, col |-> cell.col,
         rotation |-> cell.rotation,
         operators |-> << "q", "re", "W", "n", "cm", "Do", "Q" >>,
         clip |-> << Fmt4(mm_to_pt(cell.clip_rect.x)),
                     Fmt4(mm_to_pt(cell.clip_rect.y)),
                     Fmt4(mm_to_pt(cell.clip_rect.width)),
                     Fmt4(mm_to_pt(cell.clip_rect.height)) >>,
         cm |-> << m[1], m[2], m[3], m[4], Fmt4(m[5]), Fmt4(m[6]) >>]

\* the placement of the marks overlay
MarksPlacement == [name |-> "Marks", operators |-> << "q", "Do", "Q" >>]

\* variant: the marks overlay is placed under the content
PageContents_marks_first(content_ops) == << MarksPlacement >> \o content_ops

\* the content stream: the placements of the cells, then the marks overlay
PageContents(content_ops) == Append(content_ops, MarksPlacement)

\* position of page_idx in the cache, 0 when it is not cached; the form
\* imported n-th (from 0) is named "P<n>"
CachedAt(xobj_cache, page_idx_) ==
    IF \E n \in 1..Len(xobj_cache) : xobj_cache[n] = page_idx_
    THEN CHOOSE n \in 1..Len(xobj_cache) : xobj_cache[n] = page_idx_
    ELSE 0

\* variant: no cache, every placed cell imports its page again
XObjectFor_uncached(xobj_cache, page_idx_) ==
    [cache |-> Append(xobj_cache, page_idx_), name |-> Len(xobj_cache)]

\* the cache after the cell's lookup and the number of the form it invokes
XObjectFor(xobj_cache, page_idx_) ==
    IF CachedAt(xobj_cache, page_idx_) = 0
    THEN [cache |-> Append(xobj_cache, page_idx_), name |-> Len(xobj_cache)]
    ELSE [cache |-> xobj_cache, name |-> CachedAt(xobj_cache, page_idx_) - 1]

\* the loop over the cells of the grid, in list order
RECURSIVE AssembleCells(_, _, _, _, _, _, _)
AssembleCells(grid, i, n_source_pages, trim_w, trim_h, xobj_cache, content_ops) ==
    IF i > Len(grid)
    THEN [xobjects |-> xobj_cache, content_ops |-> content_ops]
    ELSE LET cell == grid[i]
         IN  IF cell.page_index = None \/ cell.page_index >= n_source_pages
             THEN AssembleCells(grid, i + 1, n_source_pages, trim_w, trim_h,
                                xobj_cache, content_ops)
             ELSE LET x == XObjectFor(xobj_cache, cell.page_index)
                  IN  AssembleCells(
                          grid, i + 1, n_source_pages, trim_w, trim_h, x.cache,
                          Append(content_ops,
                                 Placement(cell, x.name, trim_w, trim_h)))

\* the page appended for one side: its MediaBox (in 1/441 pt), the forms
\* imported, in import order, the placements of the cells, in emission
\* order, the content stream, and the marks drawn on the overlay
_assemble_pikepdf_sheet(grid, marks_, cfg, n_source_pages, trim_w, trim_h) ==
    LET dims == SheetDims(cfg.sheet)
        r == AssembleCells(grid, 1, n_source_pages, trim_w, trim_h, << >>, << >>)
    IN  [MediaBox |-> << 0, 0, mm_to_pt(Scale * dims[1]), mm_to_pt(Scale * dims[2]) >>,
         xobjects |-> r.xobjects,
         content_ops |-> r.content_ops,
         Contents |-> PageContents(r.content_ops),
         marks |-> marks_]

\* the marks placed for the sides of one sheet: the front, then the back
PlacedMarks(front, back, sheet_num_, total_sheets_) ==
    LET m(grid) == place_all_marks(grid, layout, config.marks, config.bleed,
                                   config.sheet, eff_trim_w, eff_trim_h,
                                   sheet_num_, total_sheets_)
    IN  IF Len(back) > 0 THEN << m(front), m(back) >> ELSE << m(front) >>

\* the pages a building loop appends for one sheet: the front, then the back
AssembledSides(front, back, marks_) ==
    LET page(grid, n) == _assemble_pikepdf_sheet(grid, marks_[n], config, page_count,
                                                 eff_trim_w, eff_trim_h)
    IN  IF Len(back) > 0 THEN << page(front, 1), page(back, 2) >>
        ELSE << page(front, 1) >>

\* the sides appended to output_pdf for one sheet, with the pages they hold
AppendedSides(pages, sheet_num_) ==
    [n \in 1..Len(pages) |->
        [sheet |-> sheet_num_,
         side |-> IF n = 1 THEN "front" ELSE "back",
         pages |-> [a \in 1..Len(pages[n].content_ops) |->
                       pages[n].content_ops[a].page_index]]]

-----------------------------------------------------------------------------
(* pdf_output.py: one iteration of each building loop *)

\* variant: every cell holds the first page, as in the preview grid
UniformGrid_first_page(lay, page) ==
    [i \in 1..(lay.rows * lay.cols) |->
        GridCell((i - 1) \div lay.cols, (i - 1) % lay.cols, 0, lay.cell_rotation)]

\* a full rows x cols grid whose cells all hold the same page
UniformGrid(lay, page) ==
    [i \in 1..(lay.rows * lay.cols) |->
        GridCell((i - 1) \div lay.cols, (i - 1) % lay.cols, page, lay.cell_rotation)]

BuildStepAndRepeat ==
    /\ pc = "build"
    /\ config.mode = "step_and_repeat"
    /\ page_idx < page_count
    /\ LET back_page_idx == IF page_idx + 1 < page_count THEN page_idx + 1 ELSE None
       IN  /\ front_grid' = ResolveAndPosition(UniformGrid(layout, page_idx), layout,
                                               config, eff_trim_w, eff_trim_h)
           /\ IF config.duplex
              THEN /\ back_grid' = create_duplex_back(UniformGrid(layout, back_page_idx),
                                                      layout, config, eff_trim_w, eff_trim_h)
                   /\ page_idx' = IF back_page_idx # None THEN page_idx + 2
                                  ELSE page_idx + 1
                   /\ pages_out' = pages_out + 2
              ELSE /\ back_grid' = << >>
                   /\ page_idx' = page_idx + 1
                   /\ pages_out' = pages_out + 1
    /\ sheet_num' = sheet_num + 1
    /\ marks' = PlacedMarks(front_grid', back_grid', sheet_num', page_count)
    /\ new_pages' = AssembledSides(front_grid', back_grid', marks')
    /\ output_sides' = output_sides \o AppendedSides(new_pages', sheet_num')
    /\ UNCHANGED << config, page_count, pc, error, layout, eff_trim_w, eff_trim_h,
                    sheets_data, unclosed >>
    /\ UNCHANGED store_vars

\* variant: the cursor steps over one page more than the cells it filled
AdvanceCursor_skipping(page_cursor, n, n_pages) ==
    Min(n_pages, page_cursor + n + 1)

\* the page cursor after one side of n cells: a cell takes a page and
\* advances the cursor while pages remain
AdvanceCursor(page_cursor, n, n_pages) ==
    Min(n_pages, page_cursor + n)

BuildSequential ==
    /\ pc = "build"
    /\ config.mode \in {"cut_and_stack", "booklet_perfect_bind"}
    /\ page_idx < page_count
    /\ LET n == layout.rows * layout.cols
           after_front == AdvanceCursor(page_idx, n, page_count)
           after_back == AdvanceCursor(after_front, n, page_count)
       IN  /\ front_grid' = ResolveAndPosition(
                                SequentialGrid(layout.rows, layout.cols, page_count,
                                               layout.cell_rotation, page_idx),
                                layout, config, eff_trim_w, eff_trim_h)
           /\ IF config.duplex
              THEN /\ back_grid' = create_duplex_back(
                                       SequentialGrid(layout.rows, layout.cols, page_count,
                                                      layout.cell_rotation, after_front),
                                       layout, config, eff_trim_w, eff_trim_h)
                   /\ page_idx' = after_back
                   /\ pages_out' = pages_out + 2
              ELSE /\ back_grid' = << >>
                   /\ page_idx' = after_front
                   /\ pages_out' = pages_out + 1
    /\ sheet_num' = sheet_num + 1
    /\ marks' = PlacedMarks(front_grid', back_grid', sheet_num', layout.total_sheets)
    /\ new_pages' = AssembledSides(front_grid', back_grid', marks')
    /\ output_sides' = output_sides \o AppendedSides(new_pages', sheet_num')
    /\ UNCHANGED << config, page_count, pc, error, layout, eff_trim_w, eff_trim_h,
                    sheets_data, unclosed >>
    /\ UNCHANGED store_vars

BuildSaddleStitch ==
    /\ pc = "build"
    /\ config.mode = "booklet_saddle_stitch"
    /\ sheet_num < Len(sheets_data)
    /\ LET sheet_data == sheets_data[sheet_num + 1]
       IN  /\ front_grid' = ResolveAndPosition(
                                SaddleSide(sheet_data.front, layout.cols,
                                           layout.cell_rotation),
                                layout, config, eff_trim_w, eff_trim_h)
           /\ back_grid' = ResolveAndPosition(
                               MirrorCols(SaddleSide(sheet_data.back, layout.cols,
                                                     layout.cell_rotation), layout),
                               layout, config, eff_trim_w, eff_trim_h)
    /\ sheet_num' = sheet_num + 1
    /\ pages_out' = pages_out + 2
    /\ marks' = PlacedMarks(front_grid', back_grid', sheet_num', Len(sheets_data))
    /\ new_pages' = AssembledSides(front_grid', back_grid', marks')
    /\ output_sides' = output_sides \o AppendedSides(new_pages', sheet_num')
    /\ UNCHANGED << config, page_count, pc, error, layout, eff_trim_w, eff_trim_h,
                    page_idx, sheets_data, unclosed >>
    /\ UNCHANGED store_vars

\* the loop of the chosen builder has ended: metadata, save, close
Finish ==
    /\ pc = "build"
    /\ IF config.mode = "booklet_saddle_stitch"
       THEN sheet_num >= Len(sheets_data)
       ELSE page_idx >= page_count
    /\ pc' = "done"
    /\ unclosed' = unclosed \ {"source_pdf"}
    /\ UNCHANGED << config, page_count, error, layout, eff_trim_w, eff_trim_h,
                    front_grid, back_grid, sheet_num, page_idx, sheets_data,
                    pages_out, new_pages, marks, output_sides >>
    /\ UNCHANGED store_vars

Next ==
    \/ Preview
    \/ StartImpose
    \/ BuildStepAndRepeat
    \/ BuildSequential
    \/ BuildSaddleStitch
    \/ Finish

Spec == Init /\ [][Next]_vars

SpecGeometry == InitGeometry /\ [][Next]_vars

\* the jobs of the termination check: every mode, both duplex settings and
\* flip edges, one to MaxPages pages, one or two cells per side
LiveConfigs ==
    { c \in PipelineConfigs :
        /\ c.trim_height = MaxTrim - 1
        /\ c.bleed = BleedConfig(0, 0, 0, 0)
        /\ c.sheet.sheet_width = MaxSheet - 4
        /\ c.sheet.grip_edge = 0
        /\ c.gap_between_items = 0
        /\ ~c.auto_rotate }

InitLive ==
    /\ config \in LiveConfigs
    /\ page_count \in 1..MaxPages
    /\ Idle
    /\ EmptyStore

\* a job runs to its end: generate_imposed_pdf is one thread of control, the
\* call is followed by the first iteration of its loop, every iteration by
\* the next, and the last one by the save
SpecLive ==
    /\ InitLive
    /\ [][Next]_vars
    /\ WF_vars(StartImpose)
    /\ WF_vars(BuildStepAndRepeat)
    /\ WF_vars(BuildSequential)
    /\ WF_vars(BuildSaddleStitch)
    /\ WF_vars(Finish)

-----------------------------------------------------------------------------
(* mark_placer.py: place_crop_marks called on a positioned grid *)

job_vars == << config, page_count, pc, error, layout, eff_trim_w, eff_trim_h,
               front_grid, back_grid, sheet_num, page_idx, sheets_data,
               pages_out, new_pages, marks, output_sides, unclosed >>

\* jobs with crop marks: the grid is 1 x 3 or 2 x 2
MarkJobs ==
    [mode : {"cut_and_stack"},
     trim_width : {MaxTrim},
     trim_height : {2, MaxTrim},
     bleed : { BleedConfig(0, 0, 0, 0),
               BleedConfig(MaxBleed, MaxBleed, MaxBleed, MaxBleed) },
     sheet : [sheet_width : {4 * MaxSheet}, sheet_height : {4 * MaxSheet},
              orientation : {"landscape"}, grip_edge : {0}, mark_margin : {0}],
     gap_between_items : {0, MaxGap},
     duplex : {FALSE},
     flip_edge : {"long"},
     auto_rotate : {FALSE},
     marks : {MarkConfig(TRUE)}]

\* a rows x cols grid whose i-th cell holds page i - 1 or is blank
PatternGrid(rows, cols, blank) ==
    [i \in 1..(rows * cols) |->
        GridCell((i - 1) \div cols, (i - 1) % cols,
                 IF i \in blank THEN None ELSE i - 1, 0)]

InitMarks ==
    /\ config \in MarkJobs
    /\ page_count = 4
    /\ pc = "grid"
    /\ error = ""
    /\ \E shape \in { << 1, 3 >>, << 2, 2 >> } :
          /\ layout \in { [rows |-> shape[1], cols |-> shape[2],
                           n_up |-> shape[1] * shape[2], total_sheets |-> 1,
                           cell_rotation |-> 0, grid |-> << >>] }
          /\ \E blank \in SUBSET (1..(shape[1] * shape[2])) :
                front_grid = ResolveAndPosition(
                                 PatternGrid(shape[1], shape[2], blank), layout,
                                 config, config.trim_width, config.trim_height)
    /\ eff_trim_w = config.trim_width
    /\ eff_trim_h = config.trim_height
    /\ back_grid = << >>
    /\ sheet_num = 0
    /\ page_idx = 0
    /\ sheets_data = << >>
    /\ pages_out = 0
    /\ new_pages = << >>
    /\ marks = << >>
    /\ output_sides = << >>
    /\ unclosed = {}
    /\ EmptyStore

PlaceCropMarks ==
    /\ pc = "grid"
    /\ marks' = << place_crop_marks(front_grid, layout, config.marks,
                                    eff_trim_w, eff_trim_h) >>
    /\ pc' = "marked"
    /\ UNCHANGED << config, page_count, error, layout, eff_trim_w, eff_trim_h,
                    front_grid, back_grid, sheet_num, page_idx, sheets_data,
                    pages_out, new_pages, output_sides, unclosed >>
    /\ UNCHANGED store_vars

NextMarks == PlaceCropMarks

SpecMarks == InitMarks /\ [][NextMarks]_vars

-----------------------------------------------------------------------------
(* main.py: the session store and its four handlers.  A handler runs on the *)
(* event loop without interruption except at an await: the only await is   *)
(* file.read() of upload_pdf, before the store is touched.                 *)

\* len(_sessions) > 10
SessionLimit == 10

\* the store does not depend on the job: any one configuration
InitSessions ==
    /\ config = CHOOSE c \in PipelineConfigs : TRUE
    /\ page_count = 1
    /\ Idle
    /\ EmptyStore

\* the ids a request can name: the first sessions created and an id that was
\* never created
RequestIds == (1..MaxReadId) \cup {uuid_counter + 1}

InStore(session_id) == \E i \in 1..Len(sessions) : sessions[i] = session_id

Without(seq, session_id) == SelectSeq(seq, LAMBDA x : x # session_id)

\* the session becomes the most recently used one
Touch(session_id) == Append(Without(recency, session_id), session_id)

\* upload_pdf up to "await file.read()", or its 400 for a name that is not
\* a PDF
UploadRead ==
    /\ reading < MaxReading
    /\ uuid_counter + reading < MaxUploads
    /\ \/ /\ reading' = reading + 1
          /\ UNCHANGED << sessions, uuid_counter, recency, response >>
       \/ /\ response' = [request |-> "upload", session_id |-> 0, status |-> 400]
          /\ UNCHANGED << sessions, uuid_counter, recency, reading >>
    /\ UNCHANGED job_vars

\* variant: the eviction removes the session just stored
Evict_newest(store) ==
    IF Len(store) > SessionLimit THEN SubSeq(store, 1, Len(store) - 1) ELSE store

\* "if len(_sessions) > 10": the first key in insertion order is deleted
Evict(store) ==
    IF Len(store) > SessionLimit THEN Tail(store) ELSE store

\* upload_pdf after the read: 400 for an empty or unreadable file, else the
\* session is stored under a fresh uuid and the store is cleaned up
UploadStore ==
    /\ reading > 0
    /\ reading' = reading - 1
    /\ \/ /\ response' = [request |-> "upload", session_id |-> 0, status |-> 400]
          /\ UNCHANGED << sessions, uuid_counter, recency >>
       \/ LET session_id == uuid_counter + 1
              stored == Evict(Append(sessions, session_id))
          IN  /\ uuid_counter' = session_id
              /\ sessions' = stored
              /\ recency' = SelectSeq(Append(recency, session_id),
                                      LAMBDA x : \E i \in 1..Len(stored) : stored[i] = x)
              /\ response' = [request |-> "upload", session_id |-> session_id,
                              status |-> 200]
    /\ UNCHANGED job_vars

\* a handler that looks the session up: 404 when it is not in the store
Lookup(request, statuses) ==
    \E session_id \in RequestIds :
        /\ IF InStore(session_id)
           THEN /\ \E status \in statuses :
                      response' = [request |-> request, session_id |-> session_id,
                                   status |-> status]
                /\ recency' = Touch(session_id)
           ELSE /\ response' = [request |-> request, session_id |-> session_id,
                                status |-> 404]
                /\ UNCHANGED recency
        /\ UNCHANGED << sessions, uuid_counter, reading >>
        /\ UNCHANGED job_vars

PreviewRequest == Lookup("preview", {200, 400})

ImposeRequest == Lookup("impose", {200, 400, 500})

GetPdfRequest == Lookup("get_pdf", {200})

NextSessions ==
    \/ UploadRead
    \/ UploadStore
    \/ PreviewRequest
    \/ ImposeRequest
    \/ GetPdfRequest

SpecSessions == InitSessions /\ [][NextSessions]_vars

-----------------------------------------------------------------------------
(* Properties *)

\* the positions at which the job holds grids built from its layout
Built == pc \in {"previewed", "build", "done"}

\* the sides of the sheet built last
Sides == { g \in {front_grid, back_grid} : Len(g) > 0 }

InGrid(cell, lay) ==
    /\ 0 <= cell.row /\ cell.row < lay.rows
    /\ 0 <= cell.col /\ cell.col < lay.cols

UniquePositions(grid) ==
    \A i, j \in 1..Len(grid) :
        i # j => ~(grid[i].row = grid[j].row /\ grid[i].col = grid[j].col)

\* C1: in every grid the system produces (the planner's grid, the preview
\* grid, the front and the back side of a rendered sheet, in every mode),
\* every cell has 0 <= row < layout.rows and 0 <= col < layout.cols, and no
\* two cells of one grid share their (row, col).
C1_CellsInsideGridAndUnique ==
    Built =>
        \A g \in Sides \cup {layout.grid} :
            /\ \A i \in 1..Len(g) : InGrid(g[i], layout)
            /\ UniquePositions(g)

\* C3: duplex mirror law.  The back cell corresponding to the front cell at
\* (r, c) - the cell of the same index, built at (r, c) before the mirror -
\* is at (r, cols - 1 - c) with the same rotation when flip_edge = long, and
\* at (rows - 1 - r, c) with the rotation advanced by 180 degrees when
\* flip_edge = short, in every mode that emits a back side.
MirrorLaw(front, back) ==
    /\ Len(back) = Len(front)
    /\ \A i \in 1..Len(front) :
          IF config.flip_edge = "long"
          THEN /\ back[i].row = front[i].row
               /\ back[i].col = layout.cols - 1 - front[i].col
               /\ back[i].rotation = front[i].rotation
          ELSE /\ back[i].row = layout.rows - 1 - front[i].row
               /\ back[i].col = front[i].col
               /\ back[i].rotation = (front[i].rotation + 180) % 360

C3_DuplexMirrorLaw ==
    (pc \in {"build", "done"} /\ Len(back_grid) > 0) =>
        MirrorLaw(front_grid, back_grid)

\* the slots of a signature table, as << sheet, side, position >>
Slots(sheets) == (1..Len(sheets)) \X {"front", "back"} \X {1, 2}
SlotValue(sheets, s) ==
    IF s[2] = "front" THEN sheets[s[1]].front[s[3]] ELSE sheets[s[1]].back[s[3]]

\* C4: saddle-stitch law.  With T = 4 * ceil(P / 4), the table holds
\* ceil(P / 4) signatures; signature i has front [T - 2i - 1, 2i] and back
\* [2i + 1, T - 2i - 2]; these indices are exactly 0 .. T - 1, each once; the
\* slots whose index is >= P are None, so every source page 0 .. P - 1 occurs
\* in exactly one slot.  For P = 8: [7, 0], [1, 6] and [5, 2], [3, 4].
SaddleLaw(sheets, P) ==
    LET T == 4 * CeilDiv(P, 4)
        index(s) == LET i == s[1] - 1
                    IN  IF s[2] = "front"
                        THEN (IF s[3] = 1 THEN T - 2 * i - 1 ELSE 2 * i)
                        ELSE (IF s[3] = 1 THEN 2 * i + 1 ELSE T - 2 * i - 2)
    IN  /\ Len(sheets) = CeilDiv(P, 4)
        /\ \A s \in Slots(sheets) :
              SlotValue(sheets, s) = IF index(s) >= P THEN None ELSE index(s)
        /\ \A v \in 0..(T - 1) :
              Cardinality({s \in Slots(sheets) : index(s) = v}) = 1
        /\ \A p \in 0..(P - 1) :
              Cardinality({s \in Slots(sheets) : SlotValue(sheets, s) = p}) = 1
        /\ Cardinality({s \in Slots(sheets) : SlotValue(sheets, s) = None}) = T - P

C4_SaddleStitchLaw ==
    /\ (pc \in {"build", "done"} /\ config.mode = "booklet_saddle_stitch") =>
           SaddleLaw(sheets_data, page_count)
    /\ get_saddle_stitch_sheets(8) =
           << [front |-> << 7, 0 >>, back |-> << 1, 6 >>],
              [front |-> << 5, 2 >>, back |-> << 3, 4 >>] >>

\* a finished saddle-stitch job of five pages: two signatures, three blanks
C4_Witness ==
    /\ pc = "done"
    /\ config.mode = "booklet_saddle_stitch"
    /\ page_count = 5
    /\ Len(sheets_data) = 2
    /\ sheets_data[1].front = << None, 0 >>

\* the post-orientation sheet of the job
sheet_w == SheetDims(config.sheet)[1]
sheet_h == SheetDims(config.sheet)[2]

\* the trim rectangle of a positioned cell (coordinates multiplied by Scale)
TrimRect(cell) ==
    Rectangle(cell.trim_origin_x, cell.trim_origin_y,
              Scale * eff_trim_w, Scale * eff_trim_h)

CellsAt(grid, row, col) ==
    { i \in 1..Len(grid) : grid[i].row = row /\ grid[i].col = col }

\* C2: the back side aligns with the front when the sheet is flipped.  For
\* every front cell at (r, c) and the back cell at the mirrored position, the
\* back trim rectangle is the reflection of the front one about the vertical
\* centre line of the sheet when flip_edge = long (same y), and about the
\* horizontal centre line when flip_edge = short (same x), for every bleed
\* configuration and in tight and in gap mode.
C2_BackAlignsWithFront ==
    (pc \in {"build", "done"} /\ Len(back_grid) > 0) =>
        \A i \in 1..Len(front_grid) :
            LET f == front_grid[i]
                mirrored == IF config.flip_edge = "long"
                            THEN CellsAt(back_grid, f.row, layout.cols - 1 - f.col)
                            ELSE CellsAt(back_grid, layout.rows - 1 - f.row, f.col)
            IN  \A j \in mirrored :
                    LET b == back_grid[j]
                    IN  IF config.flip_edge = "long"
                        THEN /\ b.trim_origin_x =
                                    Scale * sheet_w - f.trim_origin_x - Scale * eff_trim_w
                             /\ b.trim_origin_y = f.trim_origin_y
                        ELSE /\ b.trim_origin_y =
                                    Scale * sheet_h - f.trim_origin_y - Scale * eff_trim_h
                             /\ b.trim_origin_x = f.trim_origin_x

\* the printable area: the sheet inset by mark_margin on all four sides and
\* by grip_edge at the bottom (multiplied by Scale)
PrintableArea ==
    Rectangle(Scale * config.sheet.mark_margin,
              Scale * (config.sheet.mark_margin + config.sheet.grip_edge),
              Scale * (sheet_w - 2 * config.sheet.mark_margin),
              Scale * (sheet_h - 2 * config.sheet.mark_margin - config.sheet.grip_edge))

Inside(inner, outer) ==
    /\ outer.x <= inner.x /\ right_edge(inner) <= right_edge(outer)
    /\ outer.y <= inner.y /\ top_edge(inner) <= top_edge(outer)

\* C5: every clip_rect of a positioned grid lies inside the printable area
\* enlarged by the configured outer bleed.
C5_ClipInsidePrintableArea ==
    Built =>
        \A g \in Sides : \A i \in 1..Len(g) :
            Inside(g[i].clip_rect,
                   Rectangle(PrintableArea.x - Scale * config.bleed.left,
                             PrintableArea.y - Scale * config.bleed.bottom,
                             PrintableArea.width
                                 + Scale * (config.bleed.left + config.bleed.right),
                             PrintableArea.height
                                 + Scale * (config.bleed.top + config.bleed.bottom)))

\* C6: no two distinct cells of a positioned grid have trim rectangles whose
\* interiors overlap, in tight mode and in gap mode.
C6_TrimRectsDisjoint ==
    Built =>
        \A g \in Sides : \A i, j \in 1..Len(g) :
            i # j => ~rects_overlap(TrimRect(g[i]), TrimRect(g[j]))

\* a tight duplex sheet of at least two rows and two columns, and a gap-mode
\* grid of several cells
C6_Witness ==
    /\ pc = "build"
    /\ Len(front_grid) >= 4 /\ Len(back_grid) >= 4
    /\ layout.rows >= 2 /\ layout.cols >= 2
    /\ config.gap_between_items = 0
    /\ config.bleed.left > 0
    /\ \E i, j \in 1..Len(front_grid) :
          /\ front_grid[i].row = front_grid[j].row
          /\ right_edge(TrimRect(front_grid[i])) = front_grid[j].trim_origin_x

\* the bounding box of the trim rectangles of a grid
MinOf(S) == CHOOSE x \in S : \A y \in S : x <= y
MaxOf(S) == CHOOSE x \in S : \A y \in S : x >= y
BoundingBox(g) ==
    LET x0 == MinOf({g[i].trim_origin_x : i \in 1..Len(g)})
        y0 == MinOf({g[i].trim_origin_y : i \in 1..Len(g)})
        x1 == MaxOf({right_edge(TrimRect(g[i])) : i \in 1..Len(g)})
        y1 == MaxOf({top_edge(TrimRect(g[i])) : i \in 1..Len(g)})
    IN  Rectangle(x0, y0, x1 - x0, y1 - y0)

FullyPopulated(g) ==
    /\ Len(g) = layout.rows * layout.cols
    /\ \A r \in 0..(layout.rows - 1), c \in 0..(layout.cols - 1) : CellsAt(g, r, c) # {}

\* twice the centre of a rectangle, per axis
Centre2(r) == << r.x + right_edge(r), r.y + top_edge(r) >>

\* C7: for a fully populated rows x cols grid the centre of the bounding box
\* of all trim rectangles is the centre of the printable area, for every
\* grip_edge and every bleed configuration.
C7_GridCentredOnPrintableArea ==
    Built =>
        \A g \in Sides :
            FullyPopulated(g) => Centre2(BoundingBox(g)) = Centre2(PrintableArea)

\* field access by edge name
EdgeOf(rec, edge) ==
    IF edge = "top" THEN rec.top
    ELSE IF edge = "bottom" THEN rec.bottom
    ELSE IF edge = "left" THEN rec.left
    ELSE rec.right

BleedMatchesFlags(cell) ==
    \A e \in Edges :
        EdgeOf(cell.bleed_per_edge, e) =
            IF EdgeOf(cell.is_interior_edge, e) THEN 0 ELSE EdgeOf(config.bleed, e)

\* C8 as stated: after the Bleed Resolver has run, for every cell of the
\* grid, cells with a null page_index included, and every edge e,
\* bleed_per_edge.e = 0 if is_interior_edge.e, else the configured bleed of e.
C8_BleedMatchesFlagsEveryCell ==
    Built => \A g \in Sides : \A i \in 1..Len(g) : BleedMatchesFlags(g[i])

\* C8 as amended: the law holds for every cell with a non-null page_index;
\* a cell with a null page_index is skipped by the resolver and keeps zero
\* bleed on its four edges with no edge flagged interior.
C8_BleedMatchesFlags ==
    Built =>
        \A g \in Sides : \A i \in 1..Len(g) :
            IF g[i].page_index # None
            THEN BleedMatchesFlags(g[i])
            ELSE /\ g[i].bleed_per_edge = EdgeBleed
                 /\ g[i].is_interior_edge = EdgeFlags

\* a tight grid with bleed on every edge that holds a blank cell next to a
\* populated cell that has an interior edge and an exterior edge
C8_Witness ==
    /\ Built
    /\ config.gap_between_items = 0
    /\ \A e \in Edges : EdgeOf(config.bleed, e) > 0
    /\ \E i, j \in 1..Len(front_grid) :
          /\ front_grid[i].page_index = None
          /\ front_grid[j].page_index # None
          /\ front_grid[j].is_interior_edge.left
          /\ front_grid[j].bleed_per_edge.left = 0
          /\ ~front_grid[j].is_interior_edge.right
          /\ front_grid[j].bleed_per_edge.right = config.bleed.right

\* the grid position across an edge: top = row + 1, bottom = row - 1,
\* left = col - 1, right = col + 1
Across(cell, edge) ==
    IF edge = "top" THEN << cell.row + 1, cell.col >>
    ELSE IF edge = "bottom" THEN << cell.row - 1, cell.col >>
    ELSE IF edge = "left" THEN << cell.row, cell.col - 1 >>
    ELSE << cell.row, cell.col + 1 >>

\* the classification of C9 for one grid, rows x cols, under gap and bleed
EdgesClassified(g, rows, cols, gap, bleed) ==
    \A i \in 1..Len(g) : \A e \in Edges :
        LET pos == Across(g[i], e)
            interior ==
                /\ gap = 0
                /\ 0 <= pos[1] /\ pos[1] < rows
                /\ 0 <= pos[2] /\ pos[2] < cols
                /\ \E j \in 1..Len(g) :
                      /\ g[j].row = pos[1] /\ g[j].col = pos[2]
                      /\ g[j].page_index # None
        IN  g[i].page_index # None =>
                /\ EdgeOf(g[i].is_interior_edge, e) = interior
                /\ EdgeOf(g[i].bleed_per_edge, e) =
                       IF interior THEN 0 ELSE EdgeOf(bleed, e)

\* the fully populated 4 x 4 tight grid with bleed 5 of scenario S5
S5_Grid ==
    calculate_per_cell_bleed(
        [i \in 1..16 |-> GridCell((i - 1) \div 4, (i - 1) % 4, 0, 0)],
        [rows |-> 4, cols |-> 4], BleedConfig(5, 5, 5, 5), 0)

S5_Classified ==
    /\ EdgesClassified(S5_Grid, 4, 4, 0, BleedConfig(5, 5, 5, 5))
    /\ \A i \in CellsAt(S5_Grid, 1, 1) :
          /\ S5_Grid[i].bleed_per_edge = EdgeBleed
          /\ \A e \in Edges : EdgeOf(S5_Grid[i].is_interior_edge, e)
    /\ \A i \in CellsAt(S5_Grid, 0, 0) :
          /\ S5_Grid[i].bleed_per_edge = BleedConfig(0, 5, 5, 0)
          /\ S5_Grid[i].is_interior_edge =
                 [top |-> TRUE, bottom |-> FALSE, left |-> FALSE, right |-> TRUE]

\* C9: for every cell with a non-null page and every edge, the edge is
\* interior exactly when gap = 0 and the neighbouring grid position is inside
\* the grid and holds a cell with a non-null page_index; otherwise it is
\* exterior with the full configured bleed.  In the grid of S5, cell (1,1)
\* has four interior edges with bleed 0 and cell (0,0) has bottom and left
\* exterior = 5, top and right interior = 0.
C9_EdgeClassification ==
    /\ Built =>
          \A g \in Sides :
              EdgesClassified(g, layout.rows, layout.cols,
                              config.gap_between_items, config.bleed)
    /\ S5_Classified

\* a tight front side holding a populated cell whose right edge is interior
\* and whose top edge faces a blank cell inside the grid
C9_Witness ==
    /\ Built
    /\ config.gap_between_items = 0
    /\ config.bleed.top > 0
    /\ \E i, j \in 1..Len(front_grid) :
          /\ front_grid[i].page_index # None
          /\ front_grid[j].page_index = None
          /\ front_grid[j].row = front_grid[i].row + 1
          /\ front_grid[j].col = front_grid[i].col
          /\ InGrid(front_grid[j], layout)
          /\ front_grid[i].is_interior_edge.right
          /\ front_grid[i].bleed_per_edge.right = 0
          /\ ~front_grid[i].is_interior_edge.top
          /\ front_grid[i].bleed_per_edge.top = config.bleed.top

\* the planner's two candidates for the job
n_up_normal ==
    LET n == _calc_grid_count(sheet_w, sheet_h, config.sheet.mark_margin,
                              config.sheet.grip_edge, config.trim_width,
                              config.trim_height, config.bleed,
                              config.gap_between_items)
    IN  n[1] * n[2]

n_up_rotated ==
    LET n == _calc_grid_count(sheet_w, sheet_h, config.sheet.mark_margin,
                              config.sheet.grip_edge, config.trim_height,
                              config.trim_width, config.bleed,
                              config.gap_between_items)
    IN  n[1] * n[2]

\* C10: with auto_rotate the planner's n_up is the larger of the n_up of
\* (trim_w, trim_h) and of (trim_h, trim_w), so never smaller than the n_up
\* planned without auto_rotate for the same inputs; cell_rotation = 90 exactly
\* when the rotated candidate's n_up is strictly larger.
C10_AutoRotateSelection ==
    (Built /\ config.auto_rotate) =>
        /\ layout.n_up = Max(n_up_normal, n_up_rotated)
        /\ layout.n_up >=
               calculate_imposition_layout([config EXCEPT !.auto_rotate = FALSE],
                                           page_count, 0).n_up
        /\ (layout.cell_rotation = 90) = (n_up_rotated > n_up_normal)
        /\ layout.cell_rotation \in {0, 90}


\* the printable area in model millimetres
available_w == sheet_w - 2 * config.sheet.mark_margin
available_h == sheet_h - 2 * config.sheet.mark_margin - config.sheet.grip_edge

\* one trim + bleed rectangle of the given trim size fits the printable area
FitsPrintable(trim_w, trim_h) ==
    /\ trim_w + config.bleed.left + config.bleed.right <= available_w
    /\ trim_h + config.bleed.top + config.bleed.bottom <= available_h

\* it fits in an orientation the planner evaluates
SingleFits ==
    \/ FitsPrintable(config.trim_width, config.trim_height)
    \/ (config.auto_rotate /\ FitsPrintable(config.trim_height, config.trim_width))

\* C11: the planner yields n_up >= 1 whenever a single trim + bleed rectangle
\* fits in the printable area, and otherwise it fails with TrimExceedsSheet
\* instead of returning a layout.
C11_PlannerFitsOrFails ==
    pc # "idle" =>
        /\ SingleFits =>
               calculate_imposition_layout(config, page_count, 0).n_up >= 1
        /\ ~SingleFits =>
               /\ pc = "error"
               /\ error = "TrimExceedsSheet"
               /\ layout = NoLayout

\* no item fits: the printable area is empty, or the trim + bleed rectangle
\* fits it in neither orientation
NothingFits ==
    \/ available_w <= 0
    \/ available_h <= 0
    \/ /\ ~FitsPrintable(config.trim_width, config.trim_height)
       /\ ~FitsPrintable(config.trim_height, config.trim_width)

\* C12: when the sheet fits no items, generate_imposed_pdf fails with ZeroNUp
\* and produces no output sheet (a job already rejected with TrimExceedsSheet
\* aside).
C12_ZeroNUpWhenNothingFits ==
    (pc \in {"build", "done", "error"} /\ NothingFits /\ ~TrimExceedsSheet(config)) =>
        /\ pc = "error"
        /\ error = "ZeroNUp"
        /\ pages_out = 0

\* scenario S4: sheet 210 x 297, trim 300 x 400
S4_Config ==
    [mode |-> "step_and_repeat", trim_width |-> 300, trim_height |-> 400,
     bleed |-> BleedConfig(0, 0, 0, 0),
     sheet |-> [sheet_width |-> 210, sheet_height |-> 297,
                orientation |-> "portrait", grip_edge |-> 0, mark_margin |-> 0],
     gap_between_items |-> 0, duplex |-> FALSE, flip_edge |-> "long",
     auto_rotate |-> TRUE, marks |-> MarkConfig(FALSE)]

\* C13: generate_imposed_pdf fails with TrimExceedsSheet whenever
\* trim_w + bleed.left + bleed.right > sheet_w or
\* trim_h + bleed.top + bleed.bottom > sheet_h (sheet after the orientation
\* swap); the error is raised before the layout is computed and before any
\* output page is assembled.  Sheet 210 x 297 with trim 300 x 400 is rejected.
C13_TrimExceedsSheetFailsFast ==
    /\ pc \in {"build", "done", "error"} =>
          ((\/ config.trim_width + config.bleed.left + config.bleed.right > sheet_w
            \/ config.trim_height + config.bleed.top + config.bleed.bottom > sheet_h)
           => /\ pc = "error"
              /\ error = "TrimExceedsSheet"
              /\ layout = NoLayout
              /\ front_grid = << >> /\ back_grid = << >>
              /\ new_pages = << >>
              /\ pages_out = 0)
    /\ TrimExceedsSheet(S4_Config)

\* a job rejected because of its bleed: the trim alone fits the sheet
C13_Witness ==
    /\ pc = "error"
    /\ error = "TrimExceedsSheet"
    /\ config.trim_width <= sheet_w
    /\ config.trim_height <= sheet_h
    /\ layout = NoLayout
    /\ pages_out = 0

\* C14: for booklet_saddle_stitch the layout's total_sheets is
\* ceil(page_count / 4) for every page_count, every planner result and both
\* values of duplex, and it is the number of signatures the pipeline emits.
C14_SaddleTotalSheets ==
    (Built /\ config.mode = "booklet_saddle_stitch") =>
        /\ layout.total_sheets = CeilDiv(page_count, 4)
        /\ pc \in {"build", "done"} => Len(sheets_data) = layout.total_sheets
        /\ pc = "done" => sheet_num = layout.total_sheets

\* sides of one output sheet: 2 when duplex or saddle stitch, else 1
SidesPerSheet ==
    IF config.duplex \/ config.mode = "booklet_saddle_stitch" THEN 2 ELSE 1

\* C15: the number of output pages of a finished job divided by the sides per
\* sheet is layout.total_sheets, for every mode, page_count, n_up and duplex.
C15_SheetCountRoundTrip ==
    pc = "done" =>
        /\ pages_out % SidesPerSheet = 0
        /\ pages_out \div SidesPerSheet = layout.total_sheets


\* the 0-based index of the sheet built last
SheetIndex == sheet_num - 1

AllCellsHold(grid, page) == \A i \in 1..Len(grid) : grid[i].page_index = page

StepAndRepeatSheet ==
    /\ pc \in {"build", "done"}
    /\ config.mode = "step_and_repeat"
    /\ sheet_num >= 1

\* C16 as stated: in step_and_repeat at render time every cell of the front
\* of sheet k has page_index = k, and when duplex is set every cell of the
\* back of sheet k has page_index = k + 1.
C16_StepAndRepeatPagePerSheet ==
    StepAndRepeatSheet =>
        /\ AllCellsHold(front_grid, SheetIndex)
        /\ config.duplex => AllCellsHold(back_grid, SheetIndex + 1)

\* C16 as amended: without duplex every cell of the front of sheet k has
\* page_index = k; with duplex every cell of the front of sheet k has
\* page_index = 2k and every cell of its back has page_index = 2k + 1, or
\* None when 2k + 1 >= page_count.
C16_StepAndRepeatPages ==
    StepAndRepeatSheet =>
        IF config.duplex
        THEN /\ AllCellsHold(front_grid, 2 * SheetIndex)
             /\ AllCellsHold(back_grid, Blank(2 * SheetIndex + 1, page_count))
             /\ Len(back_grid) = layout.n_up
             /\ Len(front_grid) = layout.n_up
        ELSE /\ AllCellsHold(front_grid, SheetIndex)
             /\ Len(front_grid) = layout.n_up
             /\ back_grid = << >>

\* the second sheet of a duplex step-and-repeat job: pages 2 and 3
C16_Witness ==
    /\ StepAndRepeatSheet
    /\ config.duplex
    /\ SheetIndex = 1
    /\ layout.n_up >= 2
    /\ AllCellsHold(front_grid, 2)
    /\ AllCellsHold(back_grid, 3)

\* the cells of the grid are exactly the positions of a rows x cols grid, in
\* list order row by row, and the cell at (row, col) holds the page
\* first + row * cols + col, or None from page_count on
RowMajorFill(grid, rows, cols, first) ==
    /\ Len(grid) = rows * cols
    /\ \A i \in 1..Len(grid) :
          /\ grid[i].row = (i - 1) \div cols
          /\ grid[i].col = (i - 1) % cols
          /\ grid[i].page_index =
                 Blank(first + grid[i].row * cols + grid[i].col, page_count)

SequentialSheet ==
    /\ pc \in {"build", "done"}
    /\ config.mode \in {"cut_and_stack", "booklet_perfect_bind"}
    /\ sheet_num >= 1

\* the Grid Builder, for every sheet number of the job
GridBuilderRowMajor ==
    \A k \in 0..MaxPages :
        RowMajorFill(_build_grid(config.mode, layout.rows, layout.cols, page_count,
                                 layout.cell_rotation, k, layout.n_up),
                     layout.rows, layout.cols, k * layout.n_up)

\* C17 as stated: in cut_and_stack and perfect_bind, in the Grid Builder and
\* in the rendered output, the front cells of sheet k are filled in row-major
\* order with consecutive source indices starting at k * n_up, None from
\* page_count on, for duplex = false and duplex = true.
C17_SequentialFillFromSheetTimesNUp ==
    SequentialSheet =>
        /\ GridBuilderRowMajor
        /\ RowMajorFill(front_grid, layout.rows, layout.cols, SheetIndex * layout.n_up)

\* C17 as amended: the Grid Builder fills sheet k from k * n_up for both
\* values of duplex; the rendered front of sheet k is filled row-major from
\* k * n_up when duplex = false and from 2 * k * n_up when duplex = true (the
\* back of the sheet takes the n_up pages that follow).  Without duplex and
\* with n_up = 2 the cells of sheet k hold pages 2k and 2k + 1.
C17_SequentialFill ==
    SequentialSheet =>
        /\ GridBuilderRowMajor
        /\ RowMajorFill(front_grid, layout.rows, layout.cols,
                        (IF config.duplex THEN 2 ELSE 1) * SheetIndex * layout.n_up)
        /\ (~config.duplex /\ layout.n_up = 2) =>
               /\ front_grid[1].page_index = Blank(2 * SheetIndex, page_count)
               /\ front_grid[2].page_index = Blank(2 * SheetIndex + 1, page_count)

\* the second sheet of a duplex job on a grid of several columns and rows
C17_Witness ==
    /\ SequentialSheet
    /\ config.duplex
    /\ SheetIndex = 1
    /\ layout.cols >= 2
    /\ front_grid[1].page_index = 2 * layout.n_up

\* the sequential cursor after the front side of the sheet built last
CursorAfterFront ==
    front_grid[1].page_index
        + Cardinality({ i \in 1..Len(front_grid) : front_grid[i].page_index # None })

\* C18: in cut_and_stack and perfect_bind with duplex, pages are assigned to
\* the back side after mirroring: read in row-major order of their final,
\* mirrored (row, col), the back cells hold consecutive ascending page indices
\* continuing from the cursor left by the front side, blank cells at the end.
C18_BackPagesAssignedAfterMirror ==
    (SequentialSheet /\ config.duplex) =>
        \A i \in 1..Len(back_grid) :
            back_grid[i].page_index =
                assign_back_pages(back_grid, CursorAfterFront, page_count)[i].page_index

\* (row, col) of a before, or equal to, (row, col) of b in row-major order
RowMajorLeq(a, b) == a.row < b.row \/ (a.row = b.row /\ a.col <= b.col)

\* C19: within every output sheet side, front and back, the content
\* placements are emitted in row-major order of the cells' (row, col): row
\* ascending from 0, ties broken by col ascending.
C19_PlacementsRowMajor ==
    pc \in {"build", "done"} =>
        \A p \in 1..Len(new_pages) :
            LET ops == new_pages[p].content_ops
            IN  \A a, b \in 1..Len(ops) : a < b => RowMajorLeq(ops[a], ops[b])

\* the cells of a grid that the assembler places
Placed(grid) ==
    { i \in 1..Len(grid) : grid[i].page_index # None /\ grid[i].page_index < page_count }

\* forms are imported once per distinct page index of the grid, and every
\* placement invokes the form imported for its page index
FormsReused(page, grid) ==
    /\ \A n, m \in 1..Len(page.xobjects) :
          n # m => page.xobjects[n] # page.xobjects[m]
    /\ { page.xobjects[n] : n \in 1..Len(page.xobjects) } =
           { grid[i].page_index : i \in Placed(grid) }
    /\ Len(page.content_ops) = Cardinality(Placed(grid))
    /\ \A a \in 1..Len(page.content_ops) :
          LET op == page.content_ops[a]
          IN  /\ op.name + 1 \in 1..Len(page.xobjects)
              /\ page.xobjects[op.name + 1] = op.page_index
              /\ \E i \in Placed(grid) :
                    /\ grid[i].row = op.row /\ grid[i].col = op.col
                    /\ grid[i].page_index = op.page_index

SinglePageStepAndRepeat ==
    /\ StepAndRepeatSheet
    /\ page_count = 1
    /\ ~config.duplex

\* C20: while one sheet side is assembled, each distinct source page index of
\* the grid is imported as a form exactly once and every cell with that page
\* index invokes that form; in step_and_repeat with page_count = 1 and
\* duplex = false all n_up cells invoke the same single form, and no two
\* cells have the same cm translation.
C20_FormReuse ==
    pc \in {"build", "done"} =>
        /\ Len(new_pages) >= 1 => FormsReused(new_pages[1], front_grid)
        /\ Len(new_pages) >= 2 => FormsReused(new_pages[2], back_grid)
        /\ SinglePageStepAndRepeat =>
              LET page == new_pages[1]
              IN  /\ Len(new_pages) = 1
                  /\ Len(page.xobjects) = 1
                  /\ Len(page.content_ops) = layout.n_up
                  /\ \A a \in 1..Len(page.content_ops) : page.content_ops[a].name = 0
                  /\ \A a, b \in 1..Len(page.content_ops) :
                        a # b => page.content_ops[a].cm # page.content_ops[b].cm

\* a one-page step-and-repeat sheet of at least four cells, all from one form
C20_Witness ==
    /\ SinglePageStepAndRepeat
    /\ layout.n_up >= 4
    /\ Len(new_pages) = 1
    /\ Len(new_pages[1].xobjects) = 1
    /\ Len(new_pages[1].content_ops) = layout.n_up

-----------------------------------------------------------------------------
(* Resource lifecycle *)

\* C21: every source document handle opened during a job (the handle of the
\* analyzer and the handle of generate_imposed_pdf) is released by the end of
\* the job, when it succeeds and when it ends with an error.
C21_HandlesReleased ==
    pc \in {"done", "error"} => unclosed = {}

-----------------------------------------------------------------------------
(* Page content *)

\* the cells of a grid with a page, in list order
CellsWithPage(grid) == SelectSeq(grid, LAMBDA cell : cell.page_index # None)

ClipInPoints(cell) ==
    << Fmt4(mm_to_pt(cell.clip_rect.x)), Fmt4(mm_to_pt(cell.clip_rect.y)),
       Fmt4(mm_to_pt(cell.clip_rect.width)), Fmt4(mm_to_pt(cell.clip_rect.height)) >>

ContentStructure(page, grid) ==
    LET cells == CellsWithPage(grid)
    IN  /\ Len(page.Contents) = Len(cells) + 1
        /\ \A a \in 1..Len(cells) :
              LET op == page.Contents[a]
              IN  /\ op.operators = << "q", "re", "W", "n", "cm", "Do", "Q" >>
                  /\ op.name \in 0..(Len(page.xobjects) - 1)
                  /\ op.row = cells[a].row /\ op.col = cells[a].col
                  /\ op.page_index = cells[a].page_index
                  /\ op.clip = ClipInPoints(cells[a])
        /\ page.Contents[Len(cells) + 1] = [name |-> "Marks",
                                            operators |-> << "q", "Do", "Q" >>]

\* the grid of the n-th page appended for the sheet built last
SideGrid(n) == IF n = 1 THEN front_grid ELSE back_grid

\* C24: the content stream of every assembled side is one placement per cell
\* with a page (none for blank cells), each q, re W n with the cell's
\* clip_rect in points, cm, Do, Q, followed by exactly one final placement
\* that invokes the marks overlay.
C24_ContentStructure ==
    pc \in {"build", "done"} =>
        \A n \in 1..Len(new_pages) : ContentStructure(new_pages[n], SideGrid(n))

\* a side with a blank cell and two placements under the marks overlay
C24_Witness ==
    /\ pc = "build"
    /\ \E n \in 1..Len(new_pages) :
          /\ Len(new_pages[n].Contents) >= 3
          /\ \E i \in 1..Len(SideGrid(n)) : SideGrid(n)[i].page_index = None

\* the image of the point (x, y) under the matrix m = [a b c d e f]
Apply(m, x, y) == << m[1] * x + m[3] * y + m[5], m[2] * x + m[4] * y + m[6] >>

\* the corners of the rectangle at (x, y) of size w x h
Corners(x, y, w, h) == { << x, y >>, << x + w, y >>, << x, y + h >>, << x + w, y + h >> }

\* the matrix of the cell maps the trim box of the source page onto the trim
\* rectangle of the cell on the sheet (both in 1/441 pt), and the numbers
\* emitted are that matrix at four decimals
MapsTrimOntoCell(cell, op) ==
    LET m == CmMatrix(cell, eff_trim_w, eff_trim_h)
    IN  /\ { Apply(m, c[1], c[2]) : c \in Corners(SrcTrim.x, SrcTrim.y, SrcTrim.w, SrcTrim.h) }
             = Corners(mm_to_pt(cell.trim_origin_x), mm_to_pt(cell.trim_origin_y),
                       mm_to_pt(Scale * eff_trim_w), mm_to_pt(Scale * eff_trim_h))
        /\ op.cm = << m[1], m[2], m[3], m[4], Fmt4(m[5]), Fmt4(m[6]) >>
        /\ op.rotation = cell.rotation

\* C25: for each cell rotation reachable in the pipeline (0 or 90 from the
\* planner, 180 or 270 after a short-edge flip), when the trim size of the
\* source page is the configured trim size, the cm matrix emitted for the
\* cell maps the source trim rectangle onto the cell's trim rectangle on the
\* sheet: origin (trim_origin_x, trim_origin_y), effective trim width and
\* height, in points.
C25_TransformCorrect ==
    pc \in {"build", "done"} =>
        \A n \in 1..Len(new_pages) :
            LET cells == CellsWithPage(SideGrid(n))
            IN  \A a \in 1..Len(new_pages[n].content_ops) :
                    /\ a <= Len(cells)
                    /\ MapsTrimOntoCell(cells[a], new_pages[n].content_ops[a])

\* a placed cell of the given rotation
PlacedRotation(rot) ==
    /\ pc = "build"
    /\ \E n \in 1..Len(new_pages) :
          \E a \in 1..Len(new_pages[n].content_ops) :
              new_pages[n].content_ops[a].rotation = rot

C25_Witness == PlacedRotation(270)

-----------------------------------------------------------------------------
(* Marks of the pipeline *)

MarksOfType(side_marks, type) == SelectSeq(side_marks, LAMBDA m : m.type = type)

\* the slug of the side says "Sheet: n of N"
SlugSays(side_marks, n, N) ==
    LET slug == MarksOfType(side_marks, "slug_text")
    IN  /\ Len(slug) = 1
        /\ \E i \in 1..Len(slug[1].properties.text) :
              slug[1].properties.text[i] = << "Sheet: ", n, " of ", N >>

\* C26: on every sheet side emitted by the pipeline, in every mode and for
\* both duplex settings, the sheet_number token expands to "Sheet: n of N"
\* with n the 1-based index of the sheet and N = layout.total_sheets, so that
\* 1 <= n <= N and the last sheet emitted carries n = N.
C26_SlugSheetNumbering ==
    (pc \in {"build", "done"} /\ sheet_num >= 1) =>
        /\ \A n \in 1..Len(new_pages) :
              SlugSays(new_pages[n].marks, sheet_num, layout.total_sheets)
        /\ sheet_num <= layout.total_sheets
        /\ (pc = "done" => sheet_num = layout.total_sheets)

\* the sheet after the orientation swap, as the planner, the position solver
\* and the MediaBox see it
EffectiveSheet ==
    [config.sheet EXCEPT !.sheet_width = sheet_w, !.sheet_height = sheet_h]

MarksOnEffectiveSheet(side_marks) ==
    /\ MarksOfType(side_marks, "registration") = place_registration_marks(EffectiveSheet)
    /\ MarksOfType(side_marks, "fold") = place_fold_marks(layout, EffectiveSheet)
    /\ \A i \in 1..Len(side_marks) :
          side_marks[i].type = "slug_text" =>
              /\ side_marks[i].x1 = Scale * EffectiveSheet.mark_margin
              /\ side_marks[i].y1 = Scale * (sheet_h - 3)

\* C27: the positions of the registration marks, the fold marks
\* (x = sheet_w / 2) and the slug text are computed from the sheet width and
\* height after the orientation swap, the ones the planner, the position
\* solver and the MediaBox use, for every SheetConfig.
C27_MarksUseEffectiveSheet ==
    Built => \A n \in 1..Len(marks) : MarksOnEffectiveSheet(marks[n])

-----------------------------------------------------------------------------
(* Planner fit and maximality *)

\* the counts of _calc_grid_count for the orientation the job uses
CountsInUse ==
    _calc_grid_count(sheet_w, sheet_h, config.sheet.mark_margin, config.sheet.grip_edge,
                     eff_trim_w, eff_trim_h, config.bleed, config.gap_between_items)

ExtentW(cols) ==
    GridExtent(cols, eff_trim_w, config.bleed.left, config.bleed.right,
               config.gap_between_items)

ExtentH(rows) ==
    GridExtent(rows, eff_trim_h, config.bleed.bottom, config.bleed.top,
               config.gap_between_items)

\* C28: whenever _calc_grid_count returns cols >= 1 and rows >= 1, the grid
\* extent of the position solver for that (rows, cols) does not exceed the
\* printable area, and the count is maximal in each axis: the extent for
\* cols + 1 columns (rows + 1 rows) exceeds the available width (height), in
\* tight mode and in gap mode.
C28_PlannerFitsAndIsMaximal ==
    (Built /\ CountsInUse[1] >= 1 /\ CountsInUse[2] >= 1) =>
        /\ ExtentW(CountsInUse[1]) <= available_w
        /\ ExtentH(CountsInUse[2]) <= available_h
        /\ ExtentW(CountsInUse[1] + 1) > available_w
        /\ ExtentH(CountsInUse[2] + 1) > available_h

\* the part of C28 that holds in gap mode too: the grid fits
PlannerFits ==
    (Built /\ CountsInUse[1] >= 1 /\ CountsInUse[2] >= 1) =>
        /\ ExtentW(CountsInUse[1]) <= available_w
        /\ ExtentH(CountsInUse[2]) <= available_h

\* in tight mode the counts are maximal as well
TightIsMaximal ==
    (Built /\ config.gap_between_items = 0
        /\ CountsInUse[1] >= 1 /\ CountsInUse[2] >= 1) =>
        /\ ExtentW(CountsInUse[1] + 1) > available_w
        /\ ExtentH(CountsInUse[2] + 1) > available_h

-----------------------------------------------------------------------------
(* Crop-mark suppression *)

\* the mark has its midpoint in the rectangle, or both its endpoints
MarkOverlaps(m, rect) ==
    \/ point_in_rect(m.x1 + m.x2, m.y1 + m.y2, rect, 2)
    \/ (point_in_rect(m.x1, m.y1, rect, 1) /\ point_in_rect(m.x2, m.y2, rect, 1))

\* no mark overlaps the trim rectangle of a populated cell other than its own
NoMarkOnOtherCell(ms, grid) ==
    \A k \in 1..Len(ms) :
        \A i \in 1..Len(grid) :
            (grid[i].page_index # None /\ i - 1 # ms[k].properties.cell) =>
                ~MarkOverlaps(ms[k], TrimRect(grid[i]))

NoDuplicateMarks(ms) ==
    \A k, l \in 1..Len(ms) : k # l => MarkKey(ms[k]) # MarkKey(ms[l])

\* C23: for every grid, including grids in which blank cells precede
\* populated cells in list order, no crop mark returned by place_crop_marks
\* has its midpoint, or both its endpoints, inside the trim rectangle of a
\* populated cell other than the cell it was generated for, and no two
\* returned crop marks have the same endpoints after rounding to 0.01 mm.
C23_CropMarksSuppressed ==
    pc = "marked" =>
        /\ NoMarkOnOtherCell(marks[1], front_grid)
        /\ NoDuplicateMarks(marks[1])

\* a blank cell comes before a populated one in list order
BlankBeforePopulated(grid) ==
    \E i, j \in 1..Len(grid) :
        i < j /\ grid[i].page_index = None /\ grid[j].page_index # None

\* the suppression works on the grids without a blank cell before a page
SuppressedWithoutLeadingBlank ==
    (pc = "marked" /\ ~BlankBeforePopulated(front_grid)) =>
        /\ NoMarkOnOtherCell(marks[1], front_grid)
        /\ NoDuplicateMarks(marks[1])

-----------------------------------------------------------------------------
(* Session store *)

\* C22: the session store is an LRU cache: the session evicted by an upload
\* is the least recently used one, so a session read by preview, impose or
\* get_pdf more recently than another one is never evicted before it.
C22_EvictsLeastRecentlyUsed ==
    [][\A i \in 1..Len(sessions) :
          (\A j \in 1..Len(sessions') : sessions'[j] # sessions[i]) =>
              sessions[i] = recency[1]]_vars

\* after an upload the store holds at most SessionLimit sessions and the
\* session just created is one of them
StoreBounded ==
    /\ Len(sessions) <= SessionLimit
    /\ (response.request = "upload" /\ response.status = 200) =>
           InStore(response.session_id)

\* a request for a session that is not in the store is answered with 404, one
\* for a session in the store is not, and neither modifies the store
LookupAnswers ==
    (PreviewRequest \/ ImposeRequest \/ GetPdfRequest) =>
        /\ sessions' = sessions
        /\ (response'.status = 404) <=> ~InStore(response'.session_id)

\* C30: under any interleaving of upload, preview, impose and get_pdf
\* requests, after each upload handler completes the store holds at most 10
\* sessions and the session just created is still present, and a preview,
\* impose or get_pdf request for a session id that was never created or has
\* been evicted is answered with 404 without modifying the store.
C30_SessionStoreBound ==
    [](SessionLimit = 10 /\ StoreBounded) /\ [][LookupAnswers]_vars

\* a full store after an eviction, while another upload is reading, and a
\* request for the evicted session answered with 404
C30_Witness ==
    /\ Len(sessions) = SessionLimit
    /\ uuid_counter > SessionLimit
    /\ reading > 0
    /\ response.status = 404
    /\ response.session_id \in 1..uuid_counter

-----------------------------------------------------------------------------
(* Termination and consumption of the source pages *)

\* the cells of the output that hold page p: << side, position >>
CellsHolding(p) ==
    { sc \in { << i, a >> : i \in 1..Len(output_sides), a \in 1..MaxSheet * MaxSheet } :
        /\ sc[2] <= Len(output_sides[sc[1]].pages)
        /\ output_sides[sc[1]].pages[sc[2]] = p }

\* the sides of the output that hold page p
SidesHolding(p) == { sc[1] : sc \in CellsHolding(p) }

\* sheets are appended in order, the front of a sheet before its back
FrontBeforeBack ==
    \A i \in 1..Len(output_sides) :
        /\ output_sides[i].side = "back" =>
              /\ i > 1
              /\ output_sides[i - 1].side = "front"
              /\ output_sides[i - 1].sheet = output_sides[i].sheet
        /\ output_sides[i].side = "front" =>
              (i > 1 => output_sides[i - 1].sheet + 1 = output_sides[i].sheet)

\* the sides are in ascending page order
AscendingSides ==
    \A i, j \in 1..Len(output_sides) :
        i < j => \A a \in 1..Len(output_sides[i].pages) :
                    \A b \in 1..Len(output_sides[j].pages) :
                        output_sides[i].pages[a] < output_sides[j].pages[b]

AllPagesConsumed ==
    pc = "done" =>
        IF config.mode = "step_and_repeat"
        THEN /\ \A p \in 0..(page_count - 1) : Cardinality(SidesHolding(p)) = 1
             /\ AscendingSides
        ELSE \A p \in 0..(page_count - 1) : Cardinality(CellsHolding(p)) = 1

JobEnded == pc \in {"done", "error", "previewed"}

\* C29: every build loop terminates for every page_count >= 1 and consumes
\* all source pages in order: in step_and_repeat every source page is the
\* page of exactly one output side and the sides are in ascending page order;
\* in cut_and_stack / perfect_bind every source page is assigned to exactly
\* one cell over the whole output and the page cursor never decreases; in
\* saddle_stitch every source page is assigned to exactly one cell; and the
\* front of each sheet is appended before its back.
C29_LoopsTerminateAndConsume ==
    /\ [](AllPagesConsumed /\ FrontBeforeBack)
    /\ [][page_idx' >= page_idx]_vars
    /\ <>JobEnded

\* a finished duplex job of MaxPages pages on several sheets
C29_Witness ==
    /\ pc = "done"
    /\ page_count = MaxPages
    /\ config.duplex
    /\ config.mode # "step_and_repeat"
    /\ Len(output_sides) >= 4

=============================================================================
